---- MODULE Spec2Model ----
(***************************************************************************)
(* The stdio framing loop of hq-synapse's Python side                      *)
(* (src/py_test/main.py): main() reads a 4-byte little-endian length and   *)
(* that many payload bytes from sys.stdin.buffer, unpacks the payload with *)
(* msgpack, calls the script entry point and answers through               *)
(* send_message().  Bytes are naturals 0..255, byte strings are sequences  *)
(* of bytes, and sys.stdout is modelled as its three layers: the text      *)
(* layer's pending bytes, the binary layer's buffer, and the bytes that    *)
(* have reached file descriptor 1.                                         *)
(***************************************************************************)
EXTENDS Integers, Sequences, FiniteSets, TLC

VARIABLES
    input,         \* every byte the parent writes to the child's stdin before closing it
    pos,           \* number of bytes of input consumed by sys.stdin.buffer.read
    pc,            \* position of main(): the statement executed next
    length_data,   \* main.py:26
    payload_size,  \* main.py:30
    raw_payload,   \* main.py:31
    payload,       \* main.py:34
    result,        \* main.py:42
    textPending,   \* sys.stdout (text layer): encoded bytes not yet handed to .buffer
    bufOut,        \* sys.stdout.buffer: bytes written but not yet flushed
    out,           \* bytes that reached file descriptor 1 (what the parent reads)
    exit_code,     \* process exit status, -1 while running
    handler,       \* the script entry point called at main.py:42
    isatty,        \* whether stdout is a terminal (text layer line-buffered)
    nRead,         \* history: number of non-empty length-prefix reads
    payload_start, \* history: value of pos right after the last length-prefix read
    wlog,          \* history: the writes main() made to sys.stdout.buffer, in order
    m_pc,          \* py_test_module/main.py: position of its main()
    m_pos,         \* py_test_module/main.py: bytes of input it has consumed
    m_length_data, \* py_test_module/main.py:16
    m_payload_size,\* py_test_module/main.py:21
    m_payload,     \* py_test_module/main.py:25 (the raw payload bytes)
    m_message,     \* py_test_module/main.py:30
    m_out,         \* bytes py_test_module/main.py has put on its file descriptor 1
    m_exit_code    \* its exit status, -1 while running

vars == <<input, pos, pc, length_data, payload_size, raw_payload, payload, result,
          textPending, bufOut, out, exit_code, handler, isatty, nRead,
          payload_start, wlog, m_pc, m_pos, m_length_data, m_payload_size,
          m_payload, m_message, m_out, m_exit_code>>

\* The state of the second loop, src/test/py_test_module/main.py.
mvars == <<m_pc, m_pos, m_length_data, m_payload_size, m_payload, m_message,
           m_out, m_exit_code>>

\* ---------------------------------------------------------------- bounds

\* Largest number of segments (frames) the parent writes before closing stdin.
MaxFrames == 2

\* ---------------------------------------------------------------- bytes

Min(a, b) == IF a < b THEN a ELSE b

\* int.from_bytes(b, byteorder='big'): the first byte is the most significant.
RECURSIVE from_bytes_big(_)
from_bytes_big(b) ==
    IF b = <<>> THEN 0 ELSE from_bytes_big(SubSeq(b, 1, Len(b) - 1)) * 256 + b[Len(b)]

\* int.from_bytes(b, byteorder='little'), for a byte string of any length.
RECURSIVE from_bytes_little(_)
from_bytes_little(b) ==
    IF b = <<>> THEN 0 ELSE b[1] + 256 * from_bytes_little(Tail(b))

\* A big-endian packing: the 4 bytes of n, most significant first.
struct_pack_big(n) ==
    <<(n \div 16777216) % 256, (n \div 65536) % 256, (n \div 256) % 256, n % 256>>

\* struct.pack("<I", n): the 4 bytes of n, least significant first.
struct_pack_I(n) ==
    <<n % 256, (n \div 256) % 256, (n \div 65536) % 256, (n \div 16777216) % 256>>

\* stream.read(n) at offset p of the (eventually closed) stream s: blocks until
\* n bytes or end of stream, so it returns the next min(n, remaining) bytes.
BufferedRead(s, p, n) == SubSeq(s, p + 1, p + Min(n, Len(s) - p))

\* ---------------------------------------------------------------- msgpack

\* Decoded messages are tagged values: [t |-> "int", v |-> 0..127],
\* [t |-> "nil", v |-> 0], [t |-> "str", v |-> the UTF-8 bytes of the string],
\* [t |-> "map", v |-> <<key, value>>] (a dict with one entry).
IntMsg(n) == [t |-> "int", v |-> n]
NilMsg == [t |-> "nil", v |-> 0]
StrMsg(bytes) == [t |-> "str", v |-> bytes]
MapMsg(key, val) == [t |-> "map", v |-> <<key, val>>]

\* msgpack.packb(m): positive fixint, nil, fixstr / str 8, fixmap of one entry.
RECURSIVE packb(_)
packb(m) ==
    CASE m.t = "int" -> <<m.v>>
      [] m.t = "nil" -> <<192>>
      [] m.t = "str" -> IF Len(m.v) <= 31 THEN <<160 + Len(m.v)>> \o m.v
                                          ELSE <<217, Len(m.v)>> \o m.v
      [] m.t = "map" -> <<129>> \o packb(m.v[1]) \o packb(m.v[2])

\* Whether the bytes b[i..] are well-formed UTF-8 (1- and 2-byte sequences).
RECURSIVE Utf8Valid(_, _)
Utf8Valid(b, i) ==
    IF i > Len(b) THEN TRUE
    ELSE IF b[i] <= 127 THEN Utf8Valid(b, i + 1)
    ELSE IF b[i] >= 194 /\ b[i] <= 223
         THEN i + 1 <= Len(b) /\ b[i + 1] >= 128 /\ b[i + 1] <= 191
              /\ Utf8Valid(b, i + 2)
    ELSE FALSE

Parsed(m, j) == [k |-> "ok", msg |-> m, next |-> j]
ParseFail(kind) == [k |-> kind, msg |-> NilMsg, next |-> 0]
ParseStr(b, from, len) ==
    IF from + len - 1 > Len(b) THEN ParseFail("incomplete")
    ELSE IF ~Utf8Valid(SubSeq(b, from, from + len - 1), 1) THEN ParseFail("invalid")
    ELSE Parsed(StrMsg(SubSeq(b, from, from + len - 1)), from + len)

\* One msgpack object starting at b[i]: the object and the index after it,
\* "incomplete" when b ends inside it, "invalid" on a byte msgpack rejects
\* (0xc1, a str that is not UTF-8, a map key that is not a str), "unmodelled"
\* on a type byte outside the formats above.
RECURSIVE ParseAt(_, _)
ParseAt(b, i) ==
    IF i > Len(b) THEN ParseFail("incomplete")
    ELSE LET c == b[i] IN
      CASE c <= 127 -> Parsed(IntMsg(c), i + 1)
        [] c = 129 ->
             LET kr == ParseAt(b, i + 1) IN
               IF kr.k # "ok" THEN kr
               ELSE IF kr.msg.t # "str" THEN ParseFail("invalid")
               ELSE LET vr == ParseAt(b, kr.next) IN
                      IF vr.k # "ok" THEN vr
                      ELSE Parsed(MapMsg(kr.msg, vr.msg), vr.next)
        [] c >= 160 /\ c <= 191 -> ParseStr(b, i + 1, c - 160)
        [] c = 192 -> Parsed(NilMsg, i + 1)
        [] c = 193 -> ParseFail("invalid")
        [] c = 217 -> IF i + 1 > Len(b) THEN ParseFail("incomplete")
                      ELSE ParseStr(b, i + 2, b[i + 1])
        [] OTHER -> ParseFail("unmodelled")

\* msgpack.unpackb(b): the object when b holds exactly one; otherwise it raises
\* (incomplete input, a format error, or ExtraData for trailing bytes).
unpackb(b) ==
    LET r == ParseAt(b, 1) IN
      IF r.k = "ok" /\ r.next <= Len(b) THEN ParseFail("extra") ELSE r

\* ---------------------------------------------------------------- str()

\* str(n) for an int n >= 0: its decimal digits in ASCII.
RECURSIVE Decimal(_)
Decimal(n) == IF n < 10 THEN <<48 + n>> ELSE Decimal(n \div 10) \o <<48 + (n % 10)>>

\* format(m) as an f-string does it: str(m) at the top level, repr() for the
\* members of a dict.  A str's repr is the str in single quotes (for the
\* strings of letters this model feeds in).
RECURSIVE PyFormat(_, _)
PyFormat(m, top) ==
    CASE m.t = "int" -> Decimal(m.v)
      [] m.t = "nil" -> <<78, 111, 110, 101>>
      [] m.t = "str" -> IF top THEN m.v ELSE <<39>> \o m.v \o <<39>>
      [] m.t = "map" -> <<123>> \o PyFormat(m.v[1], FALSE) \o <<58, 32>>
                          \o PyFormat(m.v[2], FALSE) \o <<125>>

\* ---------------------------------------------------------------- the script

\* "Do something with the payload\n", what print() hands to sys.stdout.
PrintLine ==
    <<68, 111, 32, 115, 111, 109, 101, 116, 104, 105, 110, 103, 32, 119, 105, 116,
      104, 32, 116, 104, 101, 32, 112, 97, 121, 108, 111, 97, 100, 10>>

\* "Processing result from py of payload: "
ResultPrefix ==
    <<80, 114, 111, 99, 101, 115, 115, 105, 110, 103, 32, 114, 101, 115, 117, 108,
      116, 32, 102, 114, 111, 109, 32, 112, 121, 32, 111, 102, 32, 112, 97, 121,
      108, 111, 97, 100, 58, 32>>

\* "empty payload received"
EmptyPayloadText ==
    <<101, 109, 112, 116, 121, 32, 112, 97, 121, 108, 111, 97, 100, 32, 114, 101,
      99, 101, 105, 118, 101, 100>>

\* The value my_custom_script returns: {"data": f"Processing result ...: {payload}"}.
my_custom_script(p) == MapMsg(StrMsg(<<100, 97, 116, 97>>), StrMsg(ResultPrefix \o PyFormat(p, TRUE)))

\* The entry point that hands the message back untouched.
pass_through(p) == p

Handlers == {"my_custom_script", "pass_through"}

\* What the call at main.py:42 returns, and what it prints to sys.stdout.
HandlerResult(h, p) == IF h = "my_custom_script" THEN my_custom_script(p) ELSE pass_through(p)
HandlerPrints(h) == IF h = "my_custom_script" THEN PrintLine ELSE <<>>

\* ---------------------------------------------------------------- input streams

\* One frame as the parent writes it: uint32 little-endian length, then payload.
Frame(p) == struct_pack_I(Len(p)) \o p

\* Payloads the parent frames: none; the ints 5 and nil; the str "a"; the map
\* {"a": 1}; the reserved byte 0xc1; and two objects where one is expected.
Payloads ==
    { <<>>, <<5>>, <<192>>, <<161, 97>>, <<129, 161, 97, 1>>, <<193>>, <<5, 5>> }

\* A segment whose length field (10) is larger than what follows it ("aa").
RawSegments == { <<10, 0, 0, 0, 162, 97, 97>> }

Segments == {Frame(p) : p \in Payloads} \cup RawSegments

RECURSIVE Concat(_)
Concat(ss) == IF ss = <<>> THEN <<>> ELSE Head(ss) \o Concat(Tail(ss))

\* Every stream of at most MaxFrames segments, closed at any byte: the parent may
\* close (or die) anywhere, so every prefix is an input.
Streams == {Concat(ss) : ss \in UNION {[1..k -> Segments] : k \in 0..MaxFrames}}
Inputs == UNION {{SubSeq(s, 1, j) : j \in 0..Len(s)} : s \in Streams}

\* ---------------------------------------------------------------- stdout

\* send_message writing the packed message alone, with no length in front.
send_message_unframed(message) == packb(message)

\* send_message with the length packed most significant byte first.
send_message_big_endian(message) ==
    LET packed == packb(message)
        length == struct_pack_big(Len(packed))
    IN  length \o packed

\* The bytes send_message writes for a message: length prefix and packed payload.
send_message_bytes(message) ==
    LET packed == packb(message)
        length == struct_pack_I(Len(packed))
    IN  length \o packed

\* The bytes main() writes on an empty payload (main.py:36).
empty_payload_bytes == packb(StrMsg(EmptyPayloadText))

WriteRecord(kind, bytes, message) == [kind |-> kind, bytes |-> bytes, msg |-> message]

\* ---------------------------------------------------------------- main()

Init ==
    /\ input \in Inputs
    /\ handler \in Handlers
    /\ isatty \in BOOLEAN
    /\ pos = 0
    /\ pc = "read_length"
    /\ length_data = <<>>
    /\ payload_size = 0
    /\ raw_payload = <<>>
    /\ payload = NilMsg
    /\ result = NilMsg
    /\ textPending = <<>>
    /\ bufOut = <<>>
    /\ out = <<>>
    /\ exit_code = -1
    /\ nRead = 0
    /\ payload_start = 0
    /\ wlog = <<>>
    /\ m_pc = "read_length"
    /\ m_pos = 0
    /\ m_length_data = <<>>
    /\ m_payload_size = 0
    /\ m_payload = <<>>
    /\ m_message = NilMsg
    /\ m_out = <<>>
    /\ m_exit_code = -1

\* main.py:26-28: read the length prefix; return when nothing was read.
ReadLength ==
    /\ pc = "read_length"
    /\ length_data' = BufferedRead(input, pos, 4)
    /\ pos' = pos + Len(length_data')
    /\ payload_start' = pos'
    /\ IF length_data' = <<>>
         THEN pc' = "returned" /\ nRead' = nRead
         ELSE pc' = "read_payload" /\ nRead' = nRead + 1
    /\ UNCHANGED <<mvars, input, payload_size, raw_payload, payload, result, textPending,
                   bufOut, out, exit_code, handler, isatty, wlog>>

\* main.py:30-31: interpret the prefix and read that many payload bytes.
ReadPayload ==
    /\ pc = "read_payload"
    /\ payload_size' = from_bytes_little(length_data)
    /\ raw_payload' = BufferedRead(input, pos, payload_size')
    /\ pos' = pos + Len(raw_payload')
    /\ pc' = "branch"
    /\ UNCHANGED <<mvars, input, length_data, payload, result, textPending, bufOut, out,
                   exit_code, handler, isatty, nRead, payload_start, wlog>>

\* The unpack step with unpackb's exception swallowed: the script is called anyway.
UnpackIgnoresError ==
    /\ pc = "branch"
    /\ raw_payload # <<>>
    /\ LET r == unpackb(raw_payload) IN
         IF r.k = "ok" THEN payload' = r.msg ELSE payload' = payload
    /\ pc' = "call"
    /\ UNCHANGED <<mvars, input, pos, length_data, payload_size, raw_payload, result,
                   textPending, bufOut, out, exit_code, handler, isatty, nRead,
                   payload_start, wlog>>

\* main.py:33-34: a non-empty payload is unpacked; unpackb's exception is not caught.
Unpack ==
    /\ pc = "branch"
    /\ raw_payload # <<>>
    /\ LET r == unpackb(raw_payload) IN
         IF r.k = "ok" THEN payload' = r.msg /\ pc' = "call"
                       ELSE payload' = payload /\ pc' = "raised"
    /\ UNCHANGED <<mvars, input, pos, length_data, payload_size, raw_payload, result,
                   textPending, bufOut, out, exit_code, handler, isatty, nRead,
                   payload_start, wlog>>

\* The empty-payload branch without its return: the loop goes on reading.
EmptyPayloadContinues ==
    /\ pc = "branch"
    /\ raw_payload = <<>>
    /\ bufOut' = bufOut \o empty_payload_bytes
    /\ wlog' = Append(wlog, WriteRecord("sentinel", empty_payload_bytes,
                                        StrMsg(EmptyPayloadText)))
    /\ pc' = "read_length"
    /\ UNCHANGED <<mvars, input, pos, length_data, payload_size, raw_payload, payload, result,
                   textPending, out, exit_code, handler, isatty, nRead, payload_start>>

\* main.py:35-37: an empty payload is answered with the packed text, and main returns.
EmptyPayload ==
    /\ pc = "branch"
    /\ raw_payload = <<>>
    /\ bufOut' = bufOut \o empty_payload_bytes
    /\ wlog' = Append(wlog, WriteRecord("sentinel", empty_payload_bytes,
                                        StrMsg(EmptyPayloadText)))
    /\ pc' = "returned"
    /\ UNCHANGED <<mvars, input, pos, length_data, payload_size, raw_payload, payload, result,
                   textPending, out, exit_code, handler, isatty, nRead, payload_start>>

\* main.py:42: call the script.  Its print() goes to sys.stdout: on a terminal the
\* text layer is line-buffered and the line is written through at once (after
\* whatever the binary layer still holds); on a pipe it stays pending in the text
\* layer, which sys.stdout.buffer.flush() does not touch.
CallScript ==
    /\ pc = "call"
    /\ result' = HandlerResult(handler, payload)
    /\ IF HandlerPrints(handler) = <<>>
         THEN UNCHANGED <<textPending, bufOut, out>>
         ELSE IF isatty
           THEN /\ out' = out \o bufOut \o textPending \o HandlerPrints(handler)
                /\ bufOut' = <<>>
                /\ textPending' = <<>>
           ELSE /\ textPending' = textPending \o HandlerPrints(handler)
                /\ UNCHANGED <<bufOut, out>>
    /\ pc' = "send"
    /\ UNCHANGED <<mvars, input, pos, length_data, payload_size, raw_payload, payload,
                   exit_code, handler, isatty, nRead, payload_start, wlog>>

\* send_message followed by a return: the loop ends after the first answer.
SendMessageThenReturn ==
    /\ pc = "send"
    /\ out' = out \o bufOut \o send_message_bytes(result)
    /\ bufOut' = <<>>
    /\ wlog' = Append(wlog, WriteRecord("response", send_message_bytes(result), result))
    /\ pc' = "returned"
    /\ UNCHANGED <<mvars, input, pos, length_data, payload_size, raw_payload, payload, result,
                   textPending, exit_code, handler, isatty, nRead, payload_start>>

\* send_message called twice for one result.
SendMessageTwice ==
    /\ pc = "send"
    /\ out' = out \o bufOut \o send_message_bytes(result) \o send_message_bytes(result)
    /\ bufOut' = <<>>
    /\ wlog' = wlog \o <<WriteRecord("response", send_message_bytes(result), result),
                         WriteRecord("response", send_message_bytes(result), result)>>
    /\ pc' = "read_length"
    /\ UNCHANGED <<mvars, input, pos, length_data, payload_size, raw_payload, payload, result,
                   textPending, exit_code, handler, isatty, nRead, payload_start>>

\* send_message called with the decoded request instead of the script's result.
SendMessageSendsPayload ==
    /\ pc = "send"
    /\ out' = out \o bufOut \o send_message_bytes(payload)
    /\ bufOut' = <<>>
    /\ wlog' = Append(wlog, WriteRecord("response", send_message_bytes(payload), payload))
    /\ pc' = "read_length"
    /\ UNCHANGED <<mvars, input, pos, length_data, payload_size, raw_payload, payload, result,
                   textPending, exit_code, handler, isatty, nRead, payload_start>>

\* send_message without its flush: the frame stays in the binary layer's buffer.
SendMessageNoFlush ==
    /\ pc = "send"
    /\ bufOut' = bufOut \o send_message_bytes(result)
    /\ wlog' = Append(wlog, WriteRecord("response", send_message_bytes(result), result))
    /\ pc' = "read_length"
    /\ UNCHANGED <<mvars, input, pos, length_data, payload_size, raw_payload, payload, result,
                   textPending, out, exit_code, handler, isatty, nRead, payload_start>>

\* main.py:45, 48-52: send_message(result) writes the frame and flushes the
\* binary layer; the loop goes back to reading a length.
SendMessage ==
    /\ pc = "send"
    /\ out' = out \o bufOut \o send_message_bytes(result)
    /\ bufOut' = <<>>
    /\ wlog' = Append(wlog, WriteRecord("response", send_message_bytes(result), result))
    /\ pc' = "read_length"
    /\ UNCHANGED <<mvars, input, pos, length_data, payload_size, raw_payload, payload, result,
                   textPending, exit_code, handler, isatty, nRead, payload_start>>

\* A process end that skips the interpreter's flush of sys.stdout (as os._exit does).
ExitNoFlush ==
    /\ pc \in {"returned", "raised"}
    /\ exit_code' = IF pc = "returned" THEN 0 ELSE 1
    /\ pc' = "exited"
    /\ UNCHANGED <<mvars, input, pos, length_data, payload_size, raw_payload, payload, result,
                   textPending, bufOut, out, handler, isatty, nRead, payload_start, wlog>>

\* main.py:55-56: main() returned or raised; the interpreter flushes sys.stdout
\* (binary buffer first in line, then the text layer's pending bytes) and exits.
Exit ==
    /\ pc \in {"returned", "raised"}
    /\ out' = out \o bufOut \o textPending
    /\ bufOut' = <<>>
    /\ textPending' = <<>>
    /\ exit_code' = IF pc = "returned" THEN 0 ELSE 1
    /\ pc' = "exited"
    /\ UNCHANGED <<mvars, input, pos, length_data, payload_size, raw_payload, payload, result,
                   handler, isatty, nRead, payload_start, wlog>>

Next ==
    \/ ReadLength
    \/ ReadPayload
    \/ Unpack
    \/ EmptyPayload
    \/ CallScript
    \/ SendMessage
    \/ Exit

Spec == Init /\ [][Next]_vars

\* ---------------------------------------------------------------- py_test_module/main.py

mainvars == <<input, pos, pc, length_data, payload_size, raw_payload, payload, result,
              textPending, bufOut, out, exit_code, handler, isatty, nRead,
              payload_start, wlog>>

\* py_test_module/main.py:16-18: read the length prefix; return when nothing was read.
M_ReadLength ==
    /\ m_pc = "read_length"
    /\ m_length_data' = BufferedRead(input, m_pos, 4)
    /\ m_pos' = m_pos + Len(m_length_data')
    /\ m_pc' = IF m_length_data' = <<>> THEN "returned" ELSE "read_payload"
    /\ UNCHANGED <<mainvars, m_payload_size, m_payload, m_message, m_out, m_exit_code>>

\* py_test_module/main.py:21-25: interpret the prefix and read that many bytes.
M_ReadPayload ==
    /\ m_pc = "read_payload"
    /\ m_payload_size' = from_bytes_little(m_length_data)
    /\ m_payload' = BufferedRead(input, m_pos, m_payload_size')
    /\ m_pos' = m_pos + Len(m_payload')
    /\ m_pc' = "branch"
    /\ UNCHANGED <<mainvars, m_length_data, m_message, m_out, m_exit_code>>

\* py_test_module/main.py:28-30: a non-empty payload is unpacked (an exception
\* of unpackb is not caught).
M_Unpack ==
    /\ m_pc = "branch"
    /\ m_payload # <<>>
    /\ LET r == unpackb(m_payload) IN
         IF r.k = "ok" THEN m_message' = r.msg /\ m_pc' = "respond"
                       ELSE m_message' = m_message /\ m_pc' = "raised"
    /\ UNCHANGED <<mainvars, m_pos, m_length_data, m_payload_size, m_payload, m_out,
                   m_exit_code>>

\* py_test_module/main.py:28: an empty payload is skipped (the if has no else)
\* and the loop reads the next length.
M_SkipEmpty ==
    /\ m_pc = "branch"
    /\ m_payload = <<>>
    /\ m_pc' = "read_length"
    /\ UNCHANGED <<mainvars, m_pos, m_length_data, m_payload_size, m_payload,
                   m_message, m_out, m_exit_code>>

\* py_test_module/main.py:36-37: write packer.pack(message), with no length in
\* front, and flush sys.stdout (text layer and binary buffer).
M_Respond ==
    /\ m_pc = "respond"
    /\ m_out' = m_out \o packb(m_message)
    /\ m_pc' = "read_length"
    /\ UNCHANGED <<mainvars, m_pos, m_length_data, m_payload_size, m_payload,
                   m_message, m_exit_code>>

\* py_test_module/main.py:41-43: main() returned or raised and the process ends
\* (its only print goes to sys.stderr).
M_Exit ==
    /\ m_pc \in {"returned", "raised"}
    /\ m_exit_code' = IF m_pc = "returned" THEN 0 ELSE 1
    /\ m_pc' = "exited"
    /\ UNCHANGED <<mainvars, m_pos, m_length_data, m_payload_size, m_payload,
                   m_message, m_out>>

\* Both programs fed the same input, src/py_test/main.py with its script slot
\* filled by the pass-through handler; they run independently of each other.
PairInit == Init /\ handler = "pass_through"

PairNext ==
    \/ Next
    \/ M_ReadLength
    \/ M_ReadPayload
    \/ M_Unpack
    \/ M_SkipEmpty
    \/ M_Respond
    \/ M_Exit

PairSpec == PairInit /\ [][PairNext]_vars

\* main() is one sequential thread reading a stream that the parent closes:
\* every read returns and every enabled step is eventually taken.
FairSpec == Spec /\ WF_vars(Next)

\* The decoder model covers every payload the input streams can present.
DecoderCoversInputs ==
    (pc = "branch" /\ raw_payload # <<>>) => unpackb(raw_payload).k # "unmodelled"

\* ---------------------------------------------------------------- frames on the wire

\* b is one frame: a 4-byte little-endian length followed by exactly that many bytes.
IsFrame(b) ==
    /\ Len(b) >= 4
    /\ from_bytes_little(SubSeq(b, 1, 4)) = Len(b) - 4

\* The payload bytes of a frame.
FramePayload(b) == SubSeq(b, 5, Len(b))

\* The bytes main() handed to sys.stdout.buffer in its latest write.
LastWrite == wlog[Len(wlog)]

\* ---------------------------------------------------------------- C1

\* C1: every response written for a handled message is one frame.  The step
\* that answers a handled message (main.py:45) appends to the output stream
\* exactly one run of bytes whose first 4 bytes are the little-endian byte
\* length of the rest, and the rest is the serialized response packb(result).
C1_ResponseIsOneFrame ==
    [][pc = "send" =>
         LET w == SubSeq(out', Len(out) + 1, Len(out'))
         IN  /\ out' = out \o w
             /\ IsFrame(w)
             /\ FramePayload(w) = packb(result)]_vars

\* Two handled messages have been answered by the script, with different frames.
C1_Witness ==
    /\ pc = "read_length"
    /\ handler = "my_custom_script"
    /\ Len(wlog) = 2
    /\ wlog[1].kind = "response" /\ wlog[2].kind = "response"
    /\ wlog[1].bytes # wlog[2].bytes
    /\ Len(out) >= Len(wlog[1].bytes) + Len(wlog[2].bytes)

\* ---------------------------------------------------------------- C2

\* A complete length prefix declaring n = 0 was read and main() has answered it.
ZeroLengthAnswered ==
    /\ pc \in {"returned", "exited"}
    /\ Len(length_data) = 4
    /\ payload_size = 0

\* C2: when a prefix declaring n = 0 is read, the bytes written in answer are
\* one correctly framed response whose payload decodes to "empty payload received".
C2_EmptyPayloadAnswerIsFramed ==
    ZeroLengthAnswered =>
        /\ Len(wlog) >= 1
        /\ IsFrame(LastWrite.bytes)
        /\ unpackb(FramePayload(LastWrite.bytes)) = Parsed(StrMsg(EmptyPayloadText),
                                                         Len(LastWrite.bytes) - 3)

\* ---------------------------------------------------------------- C3

\* A complete length prefix declaring n = 0 has been read (main.py:30-31 done).
ZeroLengthFrameRead ==
    /\ pc \in {"branch", "returned", "exited"}
    /\ Len(length_data) = 4
    /\ payload_size = 0

\* C3: after a frame with n = 0 is received the session terminates.  From then
\* on no step reads from the input (pos and the count of prefixes read stay),
\* the only write is the one answer of main.py:36, and main() has returned.
C3_ZeroLengthTerminates ==
    [][ZeroLengthFrameRead =>
         /\ pos' = pos
         /\ nRead' = nRead
         /\ pc' \in {"returned", "exited"}
         /\ (pc = "branch" => Len(wlog') = Len(wlog) + 1)
         /\ (pc # "branch" => wlog' = wlog)]_vars

\* The process has exited after a zero-length frame, leaving later frames unread.
C3_Witness ==
    /\ pc = "exited"
    /\ Len(length_data) = 4
    /\ payload_size = 0
    /\ Len(input) >= pos + 5
    /\ Len(wlog) = 1

\* ---------------------------------------------------------------- C4

\* A complete prefix declared n > 0 and the stream closed before n bytes came.
TruncatedPayload ==
    /\ pc \in {"branch", "call", "send", "returned", "raised", "exited"}
    /\ Len(length_data) = 4
    /\ payload_size > 0
    /\ Len(raw_payload) < payload_size

\* C4: a payload cut short by the stream closing is fatal: the partial bytes
\* are not decoded, the script is not called, nothing is written for the
\* request, and the process ends with an error.
C4_TruncatedPayloadIsFatal ==
    TruncatedPayload =>
        /\ pc \in {"branch", "raised", "exited"}
        /\ (pc = "exited" => exit_code = 1)
        /\ Len(wlog) < nRead

\* ---------------------------------------------------------------- C5

\* The stream closed after 1, 2 or 3 bytes of a length prefix.
ShortPrefix == Len(length_data) \in 1..3

\* C5: a length prefix cut short is fatal: it is not interpreted as a length,
\* no payload read follows, no response (the empty-payload text included) is
\* written, and the process ends with an error.
C5_ShortPrefixIsFatal ==
    ShortPrefix =>
        /\ pc \in {"read_payload", "raised", "exited"}
        /\ (pc = "exited" => exit_code = 1)
        /\ Len(wlog) < nRead

\* ---------------------------------------------------------------- C6

\* main() returned because read(4) gave nothing: the stream closed at a frame boundary.
CleanClose ==
    /\ pc \in {"returned", "exited"}
    /\ length_data = <<>>

\* C6: once the input is found closed at a frame boundary the session ends
\* normally and nothing more reaches the output stream; with no input at all
\* the output stream stays empty.
C6_CleanCloseWritesNothing ==
    [][CleanClose =>
         /\ out' = out
         /\ wlog' = wlog
         /\ (pc' = "exited" => exit_code' = 0)
         /\ (input = <<>> => out' = <<>>)]_vars

\* ---------------------------------------------------------------- C7

IsSuffix(w, s) ==
    /\ Len(w) <= Len(s)
    /\ SubSeq(s, Len(s) - Len(w) + 1, Len(s)) = w

\* C7: strict request/response alternation.  The prefixes read never exceed
\* the responses written by more than one, and whenever main() is about to
\* read a length prefix every earlier request has its response on the output
\* stream in full: nothing is left in the buffer and the last response's
\* bytes are the last bytes of the stream.
C7_Alternation ==
    /\ Len(wlog) <= nRead
    /\ nRead <= Len(wlog) + 1
    /\ pc = "read_length" =>
          /\ Len(wlog) = nRead
          /\ bufOut = <<>>
          /\ (nRead > 0 => IsSuffix(LastWrite.bytes, out))

\* The second request's prefix has been read after the first response was written.
C7_Witness ==
    /\ pc = "read_payload"
    /\ nRead = 2
    /\ Len(wlog) = 1
    /\ IsSuffix(wlog[1].bytes, out)

\* ---------------------------------------------------------------- C8

\* s is a run of complete frames, each with n > 0 and a payload that unpacks.
RECURSIVE WellFormedFrames(_)
WellFormedFrames(s) ==
    IF s = <<>> THEN TRUE
    ELSE /\ Len(s) >= 4
         /\ LET n == from_bytes_little(SubSeq(s, 1, 4)) IN
              /\ n > 0
              /\ Len(s) >= 4 + n
              /\ unpackb(SubSeq(s, 5, 4 + n)).k = "ok"
              /\ WellFormedFrames(SubSeq(s, 5 + n, Len(s)))

\* The response frames a pass-through handler owes to the frames of s, in order.
RECURSIVE EchoFrames(_)
EchoFrames(s) ==
    IF s = <<>> THEN <<>>
    ELSE LET n == from_bytes_little(SubSeq(s, 1, 4)) IN
           <<Frame(packb(unpackb(SubSeq(s, 5, 4 + n)).msg))>>
              \o EchoFrames(SubSeq(s, 5 + n, Len(s)))

\* Number of input bytes whose frames main() has finished answering.
Answered ==
    IF pc \in {"read_payload", "branch", "call", "send"} THEN payload_start - 4 ELSE pos

\* C8: for well-formed non-empty frames F1..Fk and a pass-through handler the
\* output stream is the response frames F1'..Fk' in request order: at every
\* point it is exactly the responses to the frames answered so far, one write
\* per response, and at exit it holds all k of them.
C8_ResponsesInOrder ==
    (handler = "pass_through" /\ WellFormedFrames(input)) =>
        LET expected == EchoFrames(SubSeq(input, 1, Answered)) IN
          /\ Len(wlog) = Len(expected)
          /\ \A i \in 1..Len(wlog) : wlog[i].bytes = expected[i]
          /\ out = Concat(expected)
          /\ (pc = "exited" => Answered = Len(input) /\ exit_code = 0)

\* Two different well-formed frames A, B were answered A', B' and the process exited.
C8_Witness ==
    /\ pc = "exited"
    /\ handler = "pass_through"
    /\ WellFormedFrames(input)
    /\ Len(wlog) = 2
    /\ wlog[1].bytes # wlog[2].bytes
    /\ out = wlog[1].bytes \o wlog[2].bytes

\* ---------------------------------------------------------------- C9

\* s is a sequence of complete length-prefixed frames and nothing else.
RECURSIVE ParsesAsFrames(_)
ParsesAsFrames(s) ==
    IF s = <<>> THEN TRUE
    ELSE /\ Len(s) >= 4
         /\ LET n == from_bytes_little(SubSeq(s, 1, 4)) IN
              /\ Len(s) >= 4 + n
              /\ ParsesAsFrames(SubSeq(s, 5 + n, Len(s)))

\* The bytes of the writes main() made to sys.stdout.buffer, in order.
RECURSIVE WrittenBytes(_)
WrittenBytes(w) == IF w = <<>> THEN <<>> ELSE Head(w).bytes \o WrittenBytes(Tail(w))

\* C9: standard output carries only response frames.  No diagnostic text is
\* ever handed to sys.stdout: what standard output holds (delivered or still
\* buffered) is exactly the bytes of the responses main() wrote, so that when
\* those are frames the stream parses as a sequence of frames.
C9_StdoutCarriesOnlyFrames ==
    /\ textPending = <<>>
    /\ out \o bufOut = WrittenBytes(wlog)
    /\ (\A i \in 1..Len(wlog) : IsFrame(wlog[i].bytes)) => ParsesAsFrames(out)

\* ---------------------------------------------------------------- C10

\* C10: length accuracy.  Whenever raw_payload has been handed to unpackb
\* (main.py:34 ran, returning or raising), it is the payload of a complete
\* 4-byte prefix and consists of exactly the payload_size bytes that follow
\* that prefix in the input.
C10_LengthAccuracy ==
    pc \in {"call", "raised"} =>
        /\ Len(length_data) = 4
        /\ Len(raw_payload) = payload_size
        /\ raw_payload = SubSeq(input, payload_start + 1, payload_start + payload_size)

\* ---------------------------------------------------------------- C11

\* C11: the response payload is exactly the handler's result.  Whenever a
\* request has just been answered, the bytes written last are a frame at the
\* end of the output stream whose payload decodes to handler(m), m being the
\* message the request's payload decoded to; with the pass-through handler
\* that is m itself.
C11_ResponseDecodesToHandlerResult ==
    (pc = "read_length" /\ nRead > 0) =>
        LET w == LastWrite.bytes
            m == unpackb(raw_payload).msg
            d == unpackb(FramePayload(w))
        IN  /\ IsFrame(w)
            /\ IsSuffix(w, out)
            /\ d.k = "ok"
            /\ d.msg = HandlerResult(handler, m)
            /\ (handler = "pass_through" => d.msg = m)
            /\ (handler = "my_custom_script" => d.msg = my_custom_script(m))

\* The request {"a": 1} was answered by the pass-through handler with {"a": 1}.
C11_Witness ==
    /\ pc = "read_length"
    /\ handler = "pass_through"
    /\ nRead > 0
    /\ raw_payload = <<129, 161, 97, 1>>
    /\ unpackb(FramePayload(LastWrite.bytes)).msg = MapMsg(StrMsg(<<97>>), IntMsg(1))

\* ---------------------------------------------------------------- C12

\* The input holds the whole of Frame(p) starting at byte offset at + 1.
FrameAt(p, at) ==
    /\ at >= 0
    /\ Len(input) >= at + 4 + Len(p)
    /\ SubSeq(input, at + 1, at + 4 + Len(p)) = Frame(p)

\* C12: round-trip framing.  For every payload p the parent frames (the empty
\* one included), when uint32_le(len(p)) followed by p stands at the start of
\* a frame read, the two read steps (main.py:26-31) give back exactly p:
\* the prefix read is 4 bytes declaring len(p), and raw_payload = p.
C12_RoundTripFraming ==
    pc = "branch" =>
        \A p \in Payloads :
            FrameAt(p, payload_start - Len(length_data)) =>
                /\ length_data = struct_pack_I(Len(p))
                /\ payload_size = Len(p)
                /\ raw_payload = p
                /\ pos = payload_start + Len(p)

\* The second frame read carried the 4-byte payload of {"a": 1}, followed by more input.
C12_Witness ==
    /\ pc = "branch"
    /\ nRead = 2
    /\ FrameAt(<<129, 161, 97, 1>>, payload_start - 4)
    /\ raw_payload = <<129, 161, 97, 1>>

\* The frame read was an empty frame and gave back the empty payload.
C12_WitnessEmpty ==
    /\ pc = "branch"
    /\ FrameAt(<<>>, payload_start - 4)
    /\ raw_payload = <<>>
    /\ Len(input) > pos

\* ---------------------------------------------------------------- C13

\* The payload bytes read for the current frame do not deserialize.
DecodeFails == raw_payload # <<>> /\ unpackb(raw_payload).k # "ok"

\* C13: a payload that fails to deserialize is fatal.  The unpack step raises
\* instead of calling the script; from then on nothing is read, no write is
\* made, the script's result is untouched, the frame stays unanswered and the
\* process exits with an error status.
C13_DecodeFailureIsFatal ==
    [][/\ (pc = "branch" /\ DecodeFails) => pc' = "raised"
       /\ (pc = "raised" \/ (pc = "exited" /\ exit_code = 1)) =>
             /\ DecodeFails
             /\ Len(wlog) = nRead - 1
             /\ pos' = pos /\ nRead' = nRead
             /\ wlog' = wlog /\ result' = result
             /\ pc' = "exited" /\ exit_code' = 1]_vars

\* A frame was answered, the next one failed to decode, and the process exited
\* with frames left unread.
C13_Witness ==
    /\ pc = "exited"
    /\ exit_code = 1
    /\ nRead = 2
    /\ Len(wlog) = 1
    /\ raw_payload = <<193>>

\* ---------------------------------------------------------------- C14

\* The bytes w occur as one contiguous run in s.
Occurs(w, s) == \E i \in 0..(Len(s) - Len(w)) : SubSeq(s, i + 1, i + Len(w)) = w

\* C14: every response write, the empty-payload answer included, is flushed
\* before main() blocks on a read or the process ends.  Whenever main() is at
\* a read, or the process has exited, the binary layer's buffer is empty and
\* the bytes of every write made so far are on the output stream.
C14_WritesAreFlushed ==
    pc \in {"read_length", "read_payload", "exited"} =>
        /\ bufOut = <<>>
        /\ \A i \in 1..Len(wlog) : Occurs(wlog[i].bytes, out)
        /\ Len(out) >= Len(WrittenBytes(wlog))

\* A response and then the empty-payload answer were written, and the process exited.
C14_Witness ==
    /\ pc = "exited"
    /\ Len(wlog) = 2
    /\ wlog[1].kind = "response"
    /\ wlog[2].kind = "sentinel"
    /\ Occurs(wlog[2].bytes, out)

\* ---------------------------------------------------------------- C15

\* C15: termination.  After a frame is answered the loop is back at the
\* length read; main() returns only when the input is exhausted or a prefix
\* declaring n = 0 was read, and raises only on a decode failure; once the
\* process has exited nothing changes; and on every (finite, closed) input the
\* process does exit and stays exited.
C15_Termination ==
    /\ [][/\ pc = "send" => pc' = "read_length"
          /\ (pc # "returned" /\ pc' = "returned") =>
                \/ pos' = Len(input)
                \/ (Len(length_data') = 4 /\ payload_size' = 0)
          /\ (pc # "raised" /\ pc' = "raised") => DecodeFails
          /\ pc = "exited" => (pos' = pos /\ out' = out /\ wlog' = wlog /\ pc' = pc)]_vars
    /\ <>[](pc = "exited" /\ exit_code \in {0, 1})

\* Two frames were answered, the input was found closed, and the process exited normally.
C15_Witness ==
    /\ pc = "exited"
    /\ exit_code = 0
    /\ length_data = <<>>
    /\ nRead = 2
    /\ Len(wlog) = 2

\* ---------------------------------------------------------------- C17

\* C17: no unsolicited output.  The writes made never outnumber the length
\* prefixes read; while a request is in hand it has no answer yet, and when
\* main() is back at the length read every request has exactly one; only the
\* last write can be the empty-payload answer.
C17_NoUnsolicitedOutput ==
    /\ Len(wlog) <= nRead
    /\ pc \in {"read_payload", "branch", "call", "send", "raised"} => Len(wlog) = nRead - 1
    /\ pc = "read_length" => Len(wlog) = nRead
    /\ pc \in {"returned", "exited"} => Len(wlog) \in {nRead - 1, nRead}
    /\ \A i \in 1..(Len(wlog) - 1) : wlog[i].kind = "response"
    /\ Len(out) + Len(bufOut) >= Len(WrittenBytes(wlog))

\* Two requests were read and each has its one response.
C17_Witness ==
    /\ pc = "read_length"
    /\ nRead = 2
    /\ Len(wlog) = 2
    /\ wlog[1].kind = "response" /\ wlog[2].kind = "response"

\* ---------------------------------------------------------------- C16

\* C16: the two loops implement the same protocol.  Fed the same input, with
\* pass-through handling in both, once both processes have exited they have
\* consumed the same bytes, ended with the same status, and put the same bytes
\* on their output streams.
C16_LoopsAgree ==
    (pc = "exited" /\ m_pc = "exited") =>
        /\ m_pos = pos
        /\ m_exit_code = exit_code
        /\ m_out = out

====
